---- MODULE Spec2Model ----
(***************************************************************************)
(* rsduck: a REST server in front of DuckDB.                               *)
(*                                                                         *)
(* The module models                                                       *)
(*   - the read-only gate of src/src/database.rs (validate_readonly_       *)
(*     operation, is_write_operation, remove_sql_comments,                 *)
(*     is_single_statement_write_operation), character by character;       *)
(*   - the request handlers of src/src/handlers.rs and the row loop of     *)
(*     execute_sql_with_limit / execute_sql_command.                       *)
(*                                                                         *)
(* SQL texts are sequences of one-character strings.                       *)
(***************************************************************************)
EXTENDS Integers, Sequences, FiniteSets, TLC

(***************************************************************************)
(* Bounds of the model.                                                    *)
(***************************************************************************)
\* longest batch of statements in a classified SQL text
MaxStmts == 2
\* most rows a cursor produces
MaxRows == 3

(***************************************************************************)
(* Characters and character sequences.                                     *)
(***************************************************************************)
LowerLetters ==
  <<"a","b","c","d","e","f","g","h","i","j","k","l","m",
    "n","o","p","q","r","s","t","u","v","w","x","y","z">>

UpperLetters ==
  <<"A","B","C","D","E","F","G","H","I","J","K","L","M",
    "N","O","P","Q","R","S","T","U","V","W","X","Y","Z">>

\* char::to_uppercase on the ASCII range used by the model
UpperChar(c) ==
  IF \E i \in 1..26 : LowerLetters[i] = c
    THEN UpperLetters[CHOOSE i \in 1..26 : LowerLetters[i] = c]
    ELSE c

LowerChar(c) ==
  IF \E i \in 1..26 : UpperLetters[i] = c
    THEN LowerLetters[CHOOSE i \in 1..26 : UpperLetters[i] = c]
    ELSE c

\* str::to_uppercase (database.rs:64)
ToUpper(s) == [i \in 1..Len(s) |-> UpperChar(s[i])]

\* used only to write inputs in lower case
ToLower(s) == [i \in 1..Len(s) |-> LowerChar(s[i])]

\* the whitespace class of regex \s and of str::trim
IsWs(c) == c \in {" ", "\t", "\n", "\r"}

\* str::starts_with at offset i (1-based)
StartsWithAt(s, i, p) ==
  /\ i + Len(p) - 1 <= Len(s)
  /\ \A k \in 1..Len(p) : s[i + k - 1] = p[k]

\* str::starts_with
StartsWith(s, p) == StartsWithAt(s, 1, p)

\* str::find: the 1-based index of the first occurrence of p in s, 0 when none
Find(s, p) ==
  IF \E i \in 1..Len(s) : StartsWithAt(s, i, p)
    THEN CHOOSE i \in 1..Len(s) :
           /\ StartsWithAt(s, i, p)
           /\ \A j \in 1..(i - 1) : ~StartsWithAt(s, j, p)
    ELSE 0

\* str::contains
Contains(s, p) == Find(s, p) > 0

\* str::trim
Trim(s) ==
  IF \A i \in 1..Len(s) : IsWs(s[i])
    THEN <<>>
    ELSE LET a == CHOOSE i \in 1..Len(s) :
                    ~IsWs(s[i]) /\ \A j \in 1..(i - 1) : IsWs(s[j])
             b == CHOOSE i \in 1..Len(s) :
                    ~IsWs(s[i]) /\ \A j \in (i + 1)..Len(s) : IsWs(s[j])
         IN  SubSeq(s, a, b)

(***************************************************************************)
(* remove_sql_comments (database.rs:46-61).                                *)
(***************************************************************************)
\* The lazy body of /\*.*?\*/ scanned from k: the index where the closing
\* "*/" starts, or 0 when a newline (which "." does not match) or the end of
\* the text comes first.
RECURSIVE BlockEnd(_, _)
BlockEnd(s, k) ==
  IF k + 1 > Len(s) THEN 0
  ELSE IF s[k] = "*" /\ s[k + 1] = "/" THEN k
  ELSE IF s[k] = "\n" THEN 0
  ELSE BlockEnd(s, k + 1)

\* block_comment_regex.replace_all(sql, " ") from position i
RECURSIVE StripBlockFrom(_, _)
StripBlockFrom(s, i) ==
  IF i > Len(s) THEN <<>>
  ELSE IF StartsWithAt(s, i, <<"/", "*">>) /\ BlockEnd(s, i + 2) > 0
    THEN <<" ">> \o StripBlockFrom(s, BlockEnd(s, i + 2) + 2)
    ELSE <<s[i]>> \o StripBlockFrom(s, i + 1)

StripBlockComments(s) == StripBlockFrom(s, 1)

\* The lazy body of --.*?(\n|$) scanned from k: the index of the last
\* character of the match (the newline, or the last character of the text).
RECURSIVE LineEnd(_, _)
LineEnd(s, k) ==
  IF k > Len(s) THEN Len(s)
  ELSE IF s[k] = "\n" THEN k
  ELSE LineEnd(s, k + 1)

\* line_comment_regex.replace_all(cleaned, "\n") from position i
RECURSIVE StripLineFrom(_, _)
StripLineFrom(s, i) ==
  IF i > Len(s) THEN <<>>
  ELSE IF StartsWithAt(s, i, <<"-", "-">>)
    THEN <<"\n">> \o StripLineFrom(s, LineEnd(s, i + 2) + 1)
    ELSE <<s[i]>> \o StripLineFrom(s, i + 1)

StripLineComments(s) == StripLineFrom(s, 1)

\* whitespace_regex.replace_all(cleaned, " ") from position i
RECURSIVE CollapseFrom(_, _)
CollapseFrom(s, i) ==
  IF i > Len(s) THEN <<>>
  ELSE IF IsWs(s[i])
    THEN (IF i > 1 /\ IsWs(s[i - 1]) THEN <<>> ELSE <<" ">>)
         \o CollapseFrom(s, i + 1)
    ELSE <<s[i]>> \o CollapseFrom(s, i + 1)

CollapseWhitespace(s) == CollapseFrom(s, 1)

remove_sql_comments(sql) ==
  Trim(CollapseWhitespace(StripLineComments(StripBlockComments(sql))))

(***************************************************************************)
(* is_write_operation (database.rs:25-44).                                 *)
(***************************************************************************)
\* str::split(';') from position i, cur being the piece under construction
RECURSIVE SplitFrom(_, _, _)
SplitFrom(s, i, cur) ==
  IF i > Len(s) THEN <<cur>>
  ELSE IF s[i] = ";" THEN <<cur>> \o SplitFrom(s, i + 1, <<>>)
  ELSE SplitFrom(s, i + 1, Append(cur, s[i]))

SplitSemicolon(s) == SplitFrom(s, 1, <<>>)

\* .map(|s| s.trim()).filter(|s| !s.is_empty()).collect()
split_statements(cleaned_sql) ==
  LET parts == SplitSemicolon(cleaned_sql)
      trimmed == [i \in 1..Len(parts) |-> Trim(parts[i])]
  IN  SelectSeq(trimmed, LAMBDA p : p # <<>>)

(***************************************************************************)
(* Keywords of the classifier, as character sequences.                     *)
(***************************************************************************)
W_INSERT == <<"I","N","S","E","R","T">>
W_UPDATE == <<"U","P","D","A","T","E">>
W_DELETE == <<"D","E","L","E","T","E">>
W_CREATE == <<"C","R","E","A","T","E">>
W_DROP == <<"D","R","O","P">>
W_ALTER == <<"A","L","T","E","R">>
W_TRUNCATE == <<"T","R","U","N","C","A","T","E">>
W_REPLACE == <<"R","E","P","L","A","C","E">>
W_MERGE == <<"M","E","R","G","E">>
W_UPSERT == <<"U","P","S","E","R","T">>
W_BEGIN == <<"B","E","G","I","N">>
W_START_TRANSACTION ==
  <<"S","T","A","R","T"," ","T","R","A","N","S","A","C","T","I","O","N">>
W_COMMIT == <<"C","O","M","M","I","T">>
W_ROLLBACK == <<"R","O","L","L","B","A","C","K">>
W_GRANT == <<"G","R","A","N","T">>
W_REVOKE == <<"R","E","V","O","K","E">>
W_COPY == <<"C","O","P","Y">>
W_EXPORT == <<"E","X","P","O","R","T">>
W_IMPORT == <<"I","M","P","O","R","T">>
W_ATTACH == <<"A","T","T","A","C","H">>
W_DETACH == <<"D","E","T","A","C","H">>
W_WITH == <<"W","I","T","H">>
W_FROM == <<"F","R","O","M">>
W_TO == <<"T","O">>

(***************************************************************************)
(* is_single_statement_write_operation (database.rs:63-127).               *)
(***************************************************************************)
\* the array write_patterns, in the order of the source
write_patterns ==
  << W_INSERT, W_UPDATE, W_DELETE, W_CREATE, W_DROP, W_ALTER, W_TRUNCATE,
     W_REPLACE, W_MERGE, W_UPSERT, W_BEGIN, W_START_TRANSACTION, W_COMMIT,
     W_ROLLBACK, W_GRANT, W_REVOKE, W_COPY, W_EXPORT, W_IMPORT, W_ATTACH,
     W_DETACH >>

\* the alternation (INSERT|UPDATE|DELETE|CREATE|DROP|ALTER) of with_regex
with_keywords ==
  { W_INSERT, W_UPDATE, W_DELETE, W_CREATE, W_DROP, W_ALTER }

\* the first of the two COPY tests alone (line 99)
copy_first_test_only(statement_trimmed) ==
  Contains(statement_trimmed, W_FROM) /\ ~Contains(statement_trimmed, W_TO)

\* The two tests made when the matching pattern is COPY (lines 98-110):
\* TRUE is "return true", FALSE is "continue".
copy_is_write(statement_trimmed) ==
  \/ Contains(statement_trimmed, W_FROM) /\ ~Contains(statement_trimmed, W_TO)
  \/ /\ Find(statement_trimmed, W_FROM) > 0
     /\ Find(statement_trimmed, W_TO) > 0
     /\ Find(statement_trimmed, W_FROM) < Find(statement_trimmed, W_TO)

\* with_regex.is_match(u) for WITH\s+.*?\s+(INSERT|...), unanchored: WITH at
\* p, one of the keywords at c+1, and the text between them, u[p+4..c], made
\* of a whitespace run u[p+4..a], characters other than a newline, and a
\* whitespace run u[b..c].
with_regex_is_match(u) ==
  \E p \in 1..Len(u) :
    /\ StartsWithAt(u, p, W_WITH)
    /\ \E c \in (p + 5)..Len(u) :
         /\ \E kw \in with_keywords : StartsWithAt(u, c + 1, kw)
         /\ \E a \in (p + 4)..(c - 1) :
              /\ \A k \in (p + 4)..a : IsWs(u[k])
              /\ \E b \in (a + 1)..c :
                   /\ \A k \in b..c : IsWs(u[k])
                   /\ \A k \in (a + 1)..(b - 1) : u[k] # "\n"

\* the block after the loop (lines 116-124)
with_clause_is_write(statement_upper, statement_trimmed) ==
  /\ StartsWith(statement_trimmed, W_WITH)
  /\ with_regex_is_match(statement_upper)

\* the loop "for pattern in &write_patterns" from the k-th pattern on,
\* followed by the WITH check when no pattern returned
RECURSIVE scan_patterns(_, _, _)
scan_patterns(statement_upper, statement_trimmed, k) ==
  IF k > Len(write_patterns)
    THEN with_clause_is_write(statement_upper, statement_trimmed)
  ELSE IF StartsWith(statement_trimmed, write_patterns[k])
    THEN IF write_patterns[k] = W_COPY
           THEN IF copy_is_write(statement_trimmed)
                  THEN TRUE
                  ELSE scan_patterns(statement_upper, statement_trimmed, k + 1)
           ELSE TRUE
  ELSE scan_patterns(statement_upper, statement_trimmed, k + 1)

\* a classifier that looks for the keywords anywhere in the statement
is_single_statement_keyword_anywhere(statement) ==
  \E k \in 1..Len(write_patterns) :
    Contains(ToUpper(statement), write_patterns[k])

is_single_statement_write_operation(statement) ==
  LET statement_upper == ToUpper(statement)
      statement_trimmed == Trim(statement_upper)
  IN  scan_patterns(statement_upper, statement_trimmed, 1)

\* a loop that looks at the first statement only
first_statement_writes(statements, i) ==
  /\ i <= Len(statements)
  /\ is_single_statement_write_operation(statements[i])

\* the loop "for statement in statements" from the i-th statement on
RECURSIVE any_statement_writes(_, _)
any_statement_writes(statements, i) ==
  IF i > Len(statements) THEN FALSE
  ELSE IF is_single_statement_write_operation(statements[i]) THEN TRUE
  ELSE any_statement_writes(statements, i + 1)

is_write_operation(sql) ==
  any_statement_writes(split_statements(remove_sql_comments(sql)), 1)

\* the keywords tested by the gate of the server binary (main.rs:150-155)
main_write_prefixes ==
  { W_INSERT, W_UPDATE, W_DELETE, W_CREATE, W_DROP, W_ALTER }

\* the gate of execute_query_internal in main.rs (lines 148-155), given that
\* state.is_readonly holds: sql.trim().to_uppercase() starts with one of the
\* six keywords
main_gate_rejects(sql) ==
  LET sql_upper == ToUpper(Trim(sql))
  IN  \E kw \in main_write_prefixes : StartsWith(sql_upper, kw)

\* a gate with the test of is_readonly inverted
validate_readonly_inverted(is_readonly, sql) ==
  IF is_readonly THEN FALSE ELSE is_write_operation(sql)

\* validate_readonly_operation (database.rs:12-23): TRUE is Some(message)
validate_readonly_operation(is_readonly, sql) ==
  IF ~is_readonly THEN FALSE ELSE is_write_operation(sql)

(***************************************************************************)
(* SQL texts given to the classifier.  A text is a batch of statements     *)
(* joined by ";"; a statement is a lead (white space or a comment), a      *)
(* leading keyword and a tail, written in upper or in lower case.  The     *)
(* field class records what the statement is, by construction:             *)
(*   write       its leading keyword is one of the twenty write keywords   *)
(*   copy_from   COPY <target> FROM <source>                               *)
(*   copy_to     COPY <source> TO <destination>                            *)
(*   copy_bare   COPY <name> with neither FROM nor TO                      *)
(*   with_write  WITH ... holding one of INSERT ... ALTER as a keyword     *)
(*   with_read   WITH ... holding none of them as a keyword                *)
(*   select      its leading keyword is SELECT                             *)
(*   unknown     its leading keyword is neither a read nor a write keyword *)
(*   empty       nothing but the lead                                      *)
(***************************************************************************)
W_SELECT == <<"S","E","L","E","C","T">>
W_VACUUM == <<"V","A","C","U","U","M">>
W_GARBAGE == <<"@","#","!">>

T_T == <<" ","t">>
T_COPY_FROM == <<" ","t"," ","F","R","O","M"," ","'","f","'">>
T_COPY_FROM_STORE ==
  <<" ","s","t","o","r","e"," ","F","R","O","M"," ","'","f","'">>
T_COPY_FROM_LITERAL == <<" ","t"," ","F","R","O","M"," ","'","t","o","'">>
T_COPY_TO == <<" ","t"," ","T","O"," ","'","f","'">>
T_COPY_QUERY_TO ==
  <<" ","(","S","E","L","E","C","T"," ","1",")"," ","T","O"," ","'","f","'">>
T_COPY_SUBQUERY_TO ==
  <<" ","(","S","E","L","E","C","T"," ","a"," ","F","R","O","M"," ","t",")",
    " ","T","O"," ","'","f","'">>
T_WITH_INSERT ==
  <<" ","x"," ","A","S"," ","(","S","E","L","E","C","T"," ","1",")"," ",
    "I","N","S","E","R","T"," ","I","N","T","O"," ","t"," ",
    "S","E","L","E","C","T"," ","1">>
T_WITH_DELETE ==
  <<" ","x"," ","A","S"," ","(","D","E","L","E","T","E"," ","F","R","O","M",
    " ","t",")"," ","S","E","L","E","C","T"," ","1">>
T_WITH_SELECT ==
  <<" ","x"," ","A","S"," ","(","S","E","L","E","C","T"," ","1",")"," ",
    "S","E","L","E","C","T"," ","2">>
T_WITH_CREATED ==
  <<" ","x"," ","A","S"," ","(","S","E","L","E","C","T"," ","1",")"," ",
    "S","E","L","E","C","T"," ","c","r","e","a","t","e","d","_","a","t">>
T_SEL_ONE == <<" ","1">>
T_SEL_CREATED ==
  <<" ","c","r","e","a","t","e","d","_","a","t"," ","F","R","O","M"," ","t">>
T_SEL_LITERAL == <<" ","'","D","R","O","P","'">>
T_SEL_SEMI ==
  <<" ","'","a",";","D","R","O","P"," ","T","A","B","L","E"," ","t","'">>

L_NONE == <<>>
L_SPACE == <<" "," ","\n","\t">>
L_BLOCK == <<"/","*"," ","c"," ","*","/"," ">>
L_BLOCK_NL == <<"/","*"," ","a","\n","b"," ","*","/"," ">>
L_LINE == <<"-","-"," ","c","\n">>

Leads == { L_NONE, L_SPACE, L_BLOCK, L_BLOCK_NL, L_LINE }

\* the write keywords of the classifier other than COPY
WriteKeywords == { write_patterns[k] : k \in 1..Len(write_patterns) } \ { W_COPY }

Body(kw, tail, class) == [kw |-> kw, tail |-> tail, class |-> class]

Bodies ==
  { Body(kw, T_T, "write") : kw \in WriteKeywords }
  \cup { Body(W_COPY, tl, "copy_from") :
           tl \in { T_COPY_FROM, T_COPY_FROM_STORE, T_COPY_FROM_LITERAL } }
  \cup { Body(W_COPY, T_T, "copy_bare") }
  \cup { Body(W_COPY, tl, "copy_to") :
           tl \in { T_COPY_TO, T_COPY_QUERY_TO, T_COPY_SUBQUERY_TO } }
  \cup { Body(W_WITH, tl, "with_write") : tl \in { T_WITH_INSERT, T_WITH_DELETE } }
  \cup { Body(W_WITH, tl, "with_read") : tl \in { T_WITH_SELECT, T_WITH_CREATED } }
  \cup { Body(W_SELECT, tl, "select") :
           tl \in { T_SEL_ONE, T_SEL_CREATED, T_SEL_LITERAL, T_SEL_SEMI } }
  \cup { Body(W_VACUUM, T_T, "unknown"), Body(W_GARBAGE, T_T, "unknown") }
  \cup { Body(<<>>, <<>>, "empty") }

Stmt(lead, body, lower) ==
  [lead |-> lead, kw |-> body.kw, tail |-> body.tail, class |-> body.class,
   lower |-> lower]

\* the statement under study of a batch
RichStmts == { Stmt(l, b, lo) : l \in Leads, b \in Bodies, lo \in BOOLEAN }

\* the statements that surround it
PadStmts ==
  { Stmt(L_NONE, Body(W_SELECT, T_SEL_ONE, "select"), FALSE),
    Stmt(L_NONE, Body(W_DROP, <<" ","T","A","B","L","E"," ","t">>, "write"), FALSE) }

BatchesOfLen(n) ==
  { [i \in 1..n |-> IF i = pos THEN r ELSE pads[i]] :
      pos \in 1..n, r \in RichStmts, pads \in [1..n -> PadStmts] }

Batches == UNION { BatchesOfLen(n) : n \in 1..MaxStmts }

\* a text: a batch, with or without a ";" after its last statement
SqlInputs == [stmts : Batches, trail : BOOLEAN]

StmtText(st) ==
  st.lead \o (IF st.lower THEN ToLower(st.kw \o st.tail) ELSE st.kw \o st.tail)

RECURSIVE JoinFrom(_, _)
JoinFrom(stmts, i) ==
  IF i > Len(stmts) THEN <<>>
  ELSE StmtText(stmts[i])
       \o (IF i < Len(stmts) THEN <<";">> ELSE <<>>)
       \o JoinFrom(stmts, i + 1)

SqlText(in) == JoinFrom(in.stmts, 1) \o (IF in.trail THEN <<";">> ELSE <<>>)

(***************************************************************************)
(* Configuration and values of the request path.                           *)
(***************************************************************************)
DEFAULT_ROW_LIMIT == 10000
MAX_ROW_LIMIT == 100000

\* most columns of a result
MaxCols == 2

\* Option<T>: None, Some(v)
None == [some |-> FALSE, value |-> 0]
Some(v) == [some |-> TRUE, value |-> v]

Min(a, b) == IF a <= b THEN a ELSE b

\* Option::unwrap_or
unwrap_or(opt, default) == IF opt.some THEN opt.value ELSE default

\* line 144 without the ".min(MAX_ROW_LIMIT)"
effective_limit_unclamped(row_limit) == unwrap_or(row_limit, DEFAULT_ROW_LIMIT)

\* line 144: row_limit.unwrap_or(DEFAULT_ROW_LIMIT).min(MAX_ROW_LIMIT)
effective_limit(row_limit) ==
  Min(unwrap_or(row_limit, DEFAULT_ROW_LIMIT), MAX_ROW_LIMIT)

\* models.rs:93 without the "args.database.is_some()"
app_state_is_readonly_without_file(a) == ~a.readwrite

\* AppState::new (models.rs:93): args.database.is_some() && !args.readwrite
app_state_is_readonly(a) == a.database.some /\ ~a.readwrite

\* the limits a caller sends: none, small ones around the cursor lengths,
\* the two configured values and one above the ceiling
LimitInputs ==
  { None } \cup { Some(n) : n \in 0..(MaxRows + 1) }
  \cup { Some(DEFAULT_ROW_LIMIT), Some(MAX_ROW_LIMIT), Some(MAX_ROW_LIMIT + 1) }

\* what the engine's cursor will produce for the query, row by row: a row
\* that is read ("ok") or a row whose read fails ("err"); finite, one pass
Cursors == UNION { [1..n -> {"ok", "err"}] : n \in 0..MaxRows }

\* what duckdb::Error says (Display) when a call on the engine fails
E_NO_TABLE_USERS ==
  <<"T", "a", "b", "l", "e", " ", "u", "s", "e", "r", "s", " ", "d", "o",
    "e", "s", " ", "n", "o", "t", " ", "e", "x", "i", "s", "t">>

E_NO_TABLE_ORDERS ==
  <<"T", "a", "b", "l", "e", " ", "o", "r", "d", "e", "r", "s", " ", "d",
    "o", "e", "s", " ", "n", "o", "t", " ", "e", "x", "i", "s", "t">>

E_SYNTAX_NEAR ==
  <<"s", "y", "n", "t", "a", "x", " ", "e", "r", "r", "o", "r", " ", "a",
    "t", " ", "o", "r", " ", "n", "e", "a", "r", " ", "F", "O", "R", "M">>

E_PARSE ==
  <<"c", "a", "n", "n", "o", "t", " ", "p", "a", "r", "s", "e", " ", "1",
    "x">>

E_PERMISSION ==
  <<"p", "e", "r", "m", "i", "s", "s", "i", "o", "n", " ", "d", "e", "n",
    "i", "e", "d", ":", " ", "/", "s", "r", "v", "/", "a", ".", "d", "b">>

E_ACCESS ==
  <<"n", "o", " ", "a", "c", "c", "e", "s", "s", " ", "t", "o", " ", "/",
    "e", "t", "c", "/", "b">>

E_OUT_OF_MEMORY ==
  <<"O", "u", "t", " ", "o", "f", " ", "M", "e", "m", "o", "r", "y">>

EngineErrors ==
  { E_NO_TABLE_USERS,
    E_NO_TABLE_ORDERS,
    E_SYNTAX_NEAR,
    E_PARSE,
    E_PERMISSION,
    E_ACCESS,
    E_OUT_OF_MEMORY }

\* what r2d2::Error says when the pool gives no connection
R2D2_TIMED_OUT ==
  <<"t", "i", "m", "e", "d", " ", "o", "u", "t", " ", "w", "a", "i", "t",
    "i", "n", "g", " ", "f", "o", "r", " ", "c", "o", "n", "n", "e", "c",
    "t", "i", "o", "n">>

\* what tokio::task::JoinError says for a task that panicked
JOIN_PANICKED ==
  <<"t", "a", "s", "k", " ", "7", " ", "p", "a", "n", "i", "c", "k", "e",
    "d">>

\* the texts sent to the handlers
One(lead, kw, tl, class) ==
  [stmts |-> <<Stmt(lead, Body(kw, tl, class), FALSE)>>, trail |-> FALSE]

HandlerSqls ==
  { SqlText(One(L_NONE, W_SELECT, T_SEL_ONE, "select")),
    SqlText(One(L_NONE, W_DROP, T_T, "write")),
    SqlText(One(L_BLOCK, W_INSERT, T_T, "write")),
    SqlText(One(L_NONE, W_VACUUM, T_T, "unknown")),
    SqlText([stmts |-> <<Stmt(L_NONE, Body(W_SELECT, T_SEL_ONE, "select"), TRUE),
                         Stmt(L_SPACE, Body(W_DELETE, T_T, "write"), TRUE)>>,
             trail |-> TRUE]) }

\* a request as the router hands it to a handler: POST carries sql in the
\* body (QueryRequest.sql: String), GET may lack the parameter
\* (QueryParams.sql: Option<String>); /execute takes no limit
Requests ==
  { [endpoint |-> e, method |-> m, has_sql |-> h, sql |-> s, limit |-> l] :
      e \in {"query", "execute"}, m \in {"GET", "POST"}, h \in BOOLEAN,
      s \in HandlerSqls \cup {<<>>}, l \in LimitInputs }

ValidRequests ==
  { r \in Requests :
      /\ (r.method = "POST" => r.has_sql)
      /\ (~r.has_sql => r.sql = <<>>)
      /\ (r.has_sql => r.sql \in HandlerSqls)
      /\ (r.endpoint = "execute" => r.limit = None) }

(***************************************************************************)
(* errors.rs: the texts of the errors.                                     *)
(***************************************************************************)
\* the #[error("...")] prefixes of ApiError and DatabaseError
P_BAD_REQUEST ==
  <<"B", "a", "d", " ", "R", "e", "q", "u", "e", "s", "t", ":", " ">>

P_FORBIDDEN ==
  <<"F", "o", "r", "b", "i", "d", "d", "e", "n", ":", " ">>

P_INTERNAL ==
  <<"I", "n", "t", "e", "r", "n", "a", "l", " ", "S", "e", "r", "v", "e",
    "r", " ", "E", "r", "r", "o", "r", ":", " ">>

P_DATABASE ==
  <<"D", "a", "t", "a", "b", "a", "s", "e", " ", "E", "r", "r", "o", "r",
    ":", " ">>

P_POOL ==
  <<"D", "a", "t", "a", "b", "a", "s", "e", " ", "c", "o", "n", "n", "e",
    "c", "t", "i", "o", "n", " ", "p", "o", "o", "l", " ", "e", "r", "r",
    "o", "r", ":", " ">>

P_DUCKDB ==
  <<"D", "u", "c", "k", "D", "B", " ", "e", "r", "r", "o", "r", ":", " ">>

P_TASK_JOIN ==
  <<"T", "a", "s", "k", " ", "e", "x", "e", "c", "u", "t", "i", "o", "n",
    " ", "e", "r", "r", "o", "r", ":", " ">>

P_JSON ==
  <<"J", "S", "O", "N", " ", "s", "e", "r", "i", "a", "l", "i", "z", "a",
    "t", "i", "o", "n", " ", "e", "r", "r", "o", "r", ":", " ">>

\* handlers.rs:94, 218
MSG_MISSING_SQL ==
  <<"M", "i", "s", "s", "i", "n", "g", " ", "'", "s", "q", "l", "'", " ",
    "p", "a", "r", "a", "m", "e", "t", "e", "r">>

\* database.rs:19
MSG_READ_ONLY ==
  <<"D", "a", "t", "a", "b", "a", "s", "e", " ", "i", "s", " ", "o", "p",
    "e", "n", "e", "d", " ", "i", "n", " ", "r", "e", "a", "d", "-", "o",
    "n", "l", "y", " ", "m", "o", "d", "e", ".", " ", "W", "r", "i", "t",
    "e", " ", "o", "p", "e", "r", "a", "t", "i", "o", "n", "s", " ", "a",
    "r", "e", " ", "n", "o", "t", " ", "a", "l", "l", "o", "w", "e", "d",
    ".">>

\* the answers of sanitize_database_error
S_NOT_EXIST ==
  <<"R", "e", "f", "e", "r", "e", "n", "c", "e", "d", " ", "t", "a", "b",
    "l", "e", " ", "o", "r", " ", "c", "o", "l", "u", "m", "n", " ", "d",
    "o", "e", "s", " ", "n", "o", "t", " ", "e", "x", "i", "s", "t">>

S_SYNTAX ==
  <<"S", "Q", "L", " ", "s", "y", "n", "t", "a", "x", " ", "e", "r", "r",
    "o", "r">>

S_ACCESS ==
  <<"A", "c", "c", "e", "s", "s", " ", "d", "e", "n", "i", "e", "d">>

S_FAILED ==
  <<"D", "a", "t", "a", "b", "a", "s", "e", " ", "q", "u", "e", "r", "y",
    " ", "f", "a", "i", "l", "e", "d">>

\* the substrings sanitize_database_error looks for
K_DOES_NOT_EXIST ==
  <<"d", "o", "e", "s", " ", "n", "o", "t", " ", "e", "x", "i", "s", "t">>

K_SYNTAX_ERROR ==
  <<"s", "y", "n", "t", "a", "x", " ", "e", "r", "r", "o", "r">>

K_PARSE ==
  <<"p", "a", "r", "s", "e">>

K_PERMISSION ==
  <<"p", "e", "r", "m", "i", "s", "s", "i", "o", "n">>

K_ACCESS ==
  <<"a", "c", "c", "e", "s", "s">>

(***************************************************************************)
(* errors.rs: ApiError::status_code and ApiError::error_code.              *)
(***************************************************************************)
\* status_code answering 400 for a pool error, as for a query error
status_code_pool_as_query(err) ==
  CASE err = "Forbidden" -> 403
    [] err \in {"InternalServerError", "Database.TaskJoin", "Database.Json"} -> 500
    [] OTHER -> 400

status_code(err) ==
  CASE err = "BadRequest" -> 400
    [] err = "Forbidden" -> 403
    [] err = "InternalServerError" -> 500
    [] err = "Database.Pool" -> 503
    [] err = "Database.DuckDb" -> 400
    [] err = "Database.TaskJoin" -> 500
    [] err = "Database.Json" -> 500

error_code(err) ==
  CASE err = "BadRequest" -> "BAD_REQUEST"
    [] err = "Forbidden" -> "FORBIDDEN"
    [] err = "InternalServerError" -> "INTERNAL_SERVER_ERROR"
    [] err = "Database.Pool" -> "DATABASE_POOL_ERROR"
    [] err = "Database.DuckDb" -> "DATABASE_QUERY_ERROR"
    [] err = "Database.TaskJoin" -> "TASK_EXECUTION_ERROR"
    [] err = "Database.Json" -> "JSON_SERIALIZATION_ERROR"

\* Display of ApiError and DatabaseError (the #[error] attributes): the
\* prefixes of the variant followed by the text it carries
to_string(err, text) ==
  CASE err = "BadRequest" -> P_BAD_REQUEST \o text
    [] err = "Forbidden" -> P_FORBIDDEN \o text
    [] err = "InternalServerError" -> P_INTERNAL \o text
    [] err = "Database.Pool" -> P_DATABASE \o P_POOL \o text
    [] err = "Database.DuckDb" -> P_DATABASE \o P_DUCKDB \o text
    [] err = "Database.TaskJoin" -> P_DATABASE \o P_TASK_JOIN \o text
    [] err = "Database.Json" -> P_DATABASE \o P_JSON \o text

\* sanitize_database_error answering "Database query failed" for every text
sanitize_always_generic(error_str) == S_FAILED

\* sanitize_database_error (errors.rs:145-163)
sanitize_database_error(error_str) ==
  IF Contains(error_str, K_DOES_NOT_EXIST) THEN S_NOT_EXIST
  ELSE IF Contains(error_str, K_SYNTAX_ERROR) \/ Contains(error_str, K_PARSE)
    THEN S_SYNTAX
  ELSE IF Contains(error_str, K_PERMISSION) \/ Contains(error_str, K_ACCESS)
    THEN S_ACCESS
  ELSE S_FAILED

NoData == [kind |-> "none"]

\* the id the handler gives the one request: Uuid::new_v4().to_string()
\* (handlers.rs:92, 106, 216, 229)
REQUEST_QUERY_ID == 1

\* IntoResponse for ApiError (errors.rs:133-137): self.to_response(None),
\* whatever id the request has
into_response(err, text, query_id) ==
  [status |-> status_code(err), success |-> FALSE, code |-> error_code(err),
   message |-> to_string(err, text),
   details |-> IF err = "Database.DuckDb"
                 THEN <<sanitize_database_error(text)>> ELSE <<>>,
   data |-> NoData, query_id |-> None]

\* ApiError::to_response (errors.rs:106-130) of the variant err carrying
\* text; details is <<>> for None and <<d>> for Some(d)
error_response(err, text, query_id) ==
  [status |-> status_code(err), success |-> FALSE, code |-> error_code(err),
   message |-> to_string(err, text),
   details |-> IF err = "Database.DuckDb"
                 THEN <<sanitize_database_error(text)>> ELSE <<>>,
   data |-> NoData, query_id |-> query_id]

\* Ok(Json(QueryResponse { success: true, data: Some(data), error: None,
\* query_id, .. }))
ok_response(data, query_id) ==
  [status |-> 200, success |-> TRUE, code |-> "", message |-> <<>>,
   details |-> <<>>, data |-> data, query_id |-> Some(query_id)]

NoResponse ==
  [status |-> 0, success |-> FALSE, code |-> "", message |-> <<>>,
   details |-> <<>>, data |-> NoData, query_id |-> None]

\* the json! object of execute_sql_with_limit (lines 191-204)
query_data(column_names, rows, lim, trunc) ==
  IF trunc
    THEN [kind |-> "query", columns |-> column_names, rows |-> rows,
          row_count |-> Len(rows), limit_applied |-> lim,
          truncated |-> TRUE, message |-> lim]
    ELSE [kind |-> "query", columns |-> column_names, rows |-> rows,
          row_count |-> Len(rows), limit_applied |-> lim]

\* the json! object of execute_sql_command with the affected count reported
\* as the row count
command_data_counting_rows(updated) ==
  [kind |-> "command", rows |-> <<>>, row_count |-> updated,
   rows_affected |-> updated]

\* the json! object of execute_sql_command (lines 290-294)
command_data(updated) ==
  [kind |-> "command", rows |-> <<>>, row_count |-> 0, rows_affected |-> updated]

\* the loop's test replaced by "false": every row of the cursor is collected
limit_never_reached(count, lim) == FALSE

\* the loop's test "if row_count >= limit" (line 169) with a strict comparison
limit_reached_strict(count, lim) == count > lim

\* the loop's test "if row_count >= limit" (line 169)
limit_reached(count, lim) == count >= lim

\* the closure of query_map (lines 152-160) on the k-th row of the cursor:
\* one cell per column
row_cells(k, column_count) == [c \in 1..column_count |-> <<k, c>>]

\* get_column_names whose loop stops one column early
get_column_names_short(column_count) ==
  [c \in 1..(column_count - 1) |-> <<"col", c>>]

\* get_column_names (lines 262-275)
get_column_names(column_count) == [c \in 1..column_count |-> <<"col", c>>]

\* Result<Value, DatabaseError> of the blocking task, or the JoinError
NoResult == [kind |-> "none", err |-> "", text |-> <<>>, data |-> NoData]
TaskOk(data) == [kind |-> "ok", err |-> "", text |-> <<>>, data |-> data]
\* Err(DatabaseError) of the variant err, made from an error saying text
TaskErr(err, text) ==
  [kind |-> "err", err |-> err, text |-> text, data |-> NoData]
\* Err(JoinError) saying text
TaskJoinErr(text) ==
  [kind |-> "join_err", err |-> "", text |-> text, data |-> NoData]

(***************************************************************************)
(* database.rs: convert_value_to_json (lines 216-260).                     *)
(* An integer is its two's-complement bytes, least significant first, so   *)
(* that every cast acts at the width the source gives it.                  *)
(***************************************************************************)
\* size in bytes of the integer a ValueRef variant carries (i8, i16, i32,
\* i64, i128, u8, u16, u32, u64)
ByteWidth(tag) ==
  CASE tag \in {"TinyInt", "UTinyInt"} -> 1
    [] tag \in {"SmallInt", "USmallInt"} -> 2
    [] tag \in {"Int", "UInt"} -> 4
    [] tag \in {"BigInt", "UBigInt"} -> 8
    [] tag = "HugeInt" -> 16

IsSignedTag(tag) == tag \in {"TinyInt", "SmallInt", "Int", "BigInt", "HugeInt"}

\* the sign bit of a two's-complement integer
IsNegative(bytes) == bytes[Len(bytes)] >= 128

\* a cast to a type of n >= Len(bytes) bytes: sign extension of a signed
\* source, zero extension of an unsigned one
Extend(bytes, signed, n) ==
  [k \in 1..n |->
     IF k <= Len(bytes) THEN bytes[k]
     ELSE IF signed /\ IsNegative(bytes) THEN 255 ELSE 0]

\* a cast to a type of n <= Len(bytes) bytes keeps the low n bytes
Truncate(bytes, n) == SubSeq(bytes, 1, n)

\* the cast "i as i64" of Rust
as_i64(bytes, signed) ==
  IF Len(bytes) >= 8 THEN Truncate(bytes, 8) ELSE Extend(bytes, signed, 8)

\* two integers of any width and signedness denote the same number: their
\* extensions to 17 bytes, wider than every type here, are the same
NumEq(a, a_signed, b, b_signed) ==
  Extend(a, a_signed, 17) = Extend(b, b_signed, 17)

\* serde_json::Value
JNull == [kind |-> "null"]
JBool(b) == [kind |-> "bool", b |-> b]
\* Value::Number holding an i64, given by its 8 bytes
JInt(bytes) == [kind |-> "integer", i |-> bytes]
\* Value::Number holding a finite f64
JFloat(f) == [kind |-> "float", f |-> f.x]
JString(chars) == [kind |-> "string", s |-> chars]

\* Result<T, duckdb::Error>
Ok(value) == [ok |-> TRUE, value |-> <<value>>]
Err == [ok |-> FALSE, value |-> <<>>]

\* a float: its width in bits, its class and, when finite, which number
FloatVal(bits, class, x) == [bits |-> bits, class |-> class, x |-> x]

\* "f as f64" (line 234): every f32 is an f64 of the same class and value
f32_as_f64(f) == FloatVal(64, f.class, f.x)

\* serde_json::Number::from_f64 accepting every f64
from_f64_unchecked(f) == Some(JFloat(f))

\* serde_json::Number::from_f64 (lines 234, 238): None for NaN and the
\* infinities; the match arms turn None into Value::Null
from_f64(f) == IF f.class = "finite" THEN Some(JFloat(f)) ELSE None

\* the decimal digits of a usize, as format!("{}") writes them
Digit(d) ==
  CASE d = 0 -> "0" [] d = 1 -> "1" [] d = 2 -> "2" [] d = 3 -> "3"
    [] d = 4 -> "4" [] d = 5 -> "5" [] d = 6 -> "6" [] d = 7 -> "7"
    [] d = 8 -> "8" [] d = 9 -> "9"

RECURSIVE Decimal(_)
Decimal(n) ==
  IF n < 10 THEN <<Digit(n)>> ELSE Append(Decimal(n \div 10), Digit(n % 10))

\* the chars of the bytes used in texts and blobs
ByteChar(b) ==
  CASE b = 39 -> "'" [] b = 97 -> "a" [] b = 98 -> "b" [] OTHER -> "?"

\* a blob placeholder that writes the bytes out
blob_text_raw(bytes) ==
  <<"<", "B", "L", "O", "B", " ">> \o [k \in 1..Len(bytes) |-> ByteChar(bytes[k])]
  \o <<" ", "b", "y", "t", "e", "s", ">">>

\* format!("<BLOB {} bytes>", b.len()) (line 248)
blob_text(bytes) ==
  <<"<", "B", "L", "O", "B", " ">> \o Decimal(Len(bytes))
  \o <<" ", "b", "y", "t", "e", "s", ">">>

\* "<UNSUPPORTED_TYPE>" (line 253)
UNSUPPORTED_TYPE ==
  <<"<", "U", "N", "S", "U", "P", "P", "O", "R", "T", "E", "D", "_",
    "T", "Y", "P", "E", ">">>

\* the chars of the code points U+0080..U+07FF used in texts
CodePointChar(n) == IF n = 233 THEN "U+00E9" ELSE "U+0080..U+07FF"

\* String::from_utf8_lossy (line 243) on bytes below 128, two-byte
\* sequences (lead 194..223, continuation 128..191) and stray bytes, which
\* become U+FFFD
RECURSIVE Utf8LossyFrom(_, _)
Utf8LossyFrom(bytes, i) ==
  IF i > Len(bytes) THEN <<>>
  ELSE IF bytes[i] < 128
    THEN <<ByteChar(bytes[i])>> \o Utf8LossyFrom(bytes, i + 1)
  ELSE IF /\ bytes[i] \in 194..223
          /\ i < Len(bytes)
          /\ bytes[i + 1] \in 128..191
    THEN <<CodePointChar((bytes[i] - 192) * 64 + (bytes[i + 1] - 128))>>
         \o Utf8LossyFrom(bytes, i + 2)
  ELSE <<"U+FFFD">> \o Utf8LossyFrom(bytes, i + 1)

from_utf8_lossy(bytes) == Utf8LossyFrom(bytes, 1)

\* duckdb::types::ValueRef: the variant and what it carries: nothing, a
\* bool, an integer, a float, bytes, or (for the variants the conversion
\* does not look into) the numbers that make up the value
NullRef == [tag |-> "Null"]
BooleanRef(b) == [tag |-> "Boolean", b |-> b]
IntRef(tag, bytes) == [tag |-> tag, i |-> bytes]
FloatRef(tag, f) == [tag |-> tag, f |-> f]
BytesRef(tag, bytes) == [tag |-> tag, bytes |-> bytes]
OtherRef(tag, parts) == [tag |-> tag, parts |-> parts]

\* convert_value_to_json (lines 216-260): Ok(json_value) for a value that
\* was read, Err(e) for a read that failed
convert_value_to_json(value_ref_result) ==
  IF value_ref_result.ok
    THEN LET value_ref == value_ref_result.value[1]
             tag == value_ref.tag
         IN  Ok(CASE tag = "Null" -> JNull
                  [] tag = "Boolean" -> JBool(value_ref.b)
                  [] tag \in {"TinyInt", "SmallInt", "Int"} ->
                       JInt(as_i64(value_ref.i, TRUE))
                  [] tag = "BigInt" -> JInt(value_ref.i)
                  [] tag = "HugeInt" -> JInt(as_i64(value_ref.i, TRUE))
                  [] tag \in {"UTinyInt", "USmallInt", "UInt"} ->
                       JInt(as_i64(value_ref.i, FALSE))
                  [] tag = "UBigInt" -> JInt(as_i64(value_ref.i, FALSE))
                  [] tag = "Float" ->
                       LET num == from_f64(f32_as_f64(value_ref.f))
                       IN  IF num.some THEN num.value ELSE JNull
                  [] tag = "Double" ->
                       LET num == from_f64(value_ref.f)
                       IN  IF num.some THEN num.value ELSE JNull
                  [] tag = "Text" -> JString(from_utf8_lossy(value_ref.bytes))
                  [] tag = "Blob" -> JString(blob_text(value_ref.bytes))
                  [] OTHER -> JString(UNSUPPORTED_TYPE))
    ELSE Err

(***************************************************************************)
(* The values the engine hands to the conversion.                          *)
(***************************************************************************)
\* most cells of a row, most bytes of a text, most bytes of a blob
MaxCells == 3
MaxTextLen == 2
MaxBlobLen == 2

\* integers of n bytes: the low byte, the bytes between, the top byte, and
\* for 16 bytes also the top byte of the low half and the bytes above it
IntBytes(n) ==
  IF n = 1 THEN { <<b>> : b \in {0, 1, 127, 128, 255} }
  ELSE IF n <= 8
    THEN { [k \in 1..n |-> IF k = 1 THEN lo ELSE IF k = n THEN hi ELSE mid] :
             lo \in {0, 1, 255}, mid \in {0, 255}, hi \in {0, 127, 128, 255} }
  ELSE { [k \in 1..n |->
            IF k = 1 THEN lo
            ELSE IF k < 8 THEN mid
            ELSE IF k = 8 THEN hi8
            ELSE IF k < n THEN up
            ELSE hi] :
           lo \in {0, 1, 255}, mid \in {0, 255}, hi8 \in {0, 127, 128, 255},
           up \in {0, 255}, hi \in {0, 127, 128, 255} }

IntTags ==
  {"TinyInt", "SmallInt", "Int", "BigInt", "HugeInt",
   "UTinyInt", "USmallInt", "UInt", "UBigInt"}

IntValues == UNION { { IntRef(t, b) : b \in IntBytes(ByteWidth(t)) } : t \in IntTags }

FloatClasses == {"finite", "nan", "pinf", "ninf"}

FloatValues ==
  { FloatRef("Float", FloatVal(32, c, x)) : c \in FloatClasses, x \in {0, 1} }
  \cup { FloatRef("Double", FloatVal(64, c, x)) : c \in FloatClasses, x \in {0, 1} }

SeqsUpTo(S, n) == UNION { [1..k -> S] : k \in 0..n }

\* texts: "a", the two bytes of U+00E9, and a byte no UTF-8 text holds
TextValues == { BytesRef("Text", b) : b \in SeqsUpTo({97, 195, 169, 255}, MaxTextLen) }

\* blobs: short ones of every content and two of ten and more bytes
BlobValues ==
  { BytesRef("Blob", b) : b \in SeqsUpTo({39, 97, 255}, MaxBlobLen) }
  \cup { BytesRef("Blob", [k \in 1..n |-> f]) : n \in {10, 12}, f \in {97, 255} }

\* the variants convert_value_to_json has no arm for, each with a value:
\* DECIMAL 123.45, TIMESTAMP and DATE and TIME as counts, an interval, and
\* the nested types
OtherValues ==
  { OtherRef("Decimal", <<12345, 2>>), OtherRef("Decimal", <<-1, 0>>),
    OtherRef("Timestamp", <<1703514600>>), OtherRef("Date32", <<19358>>),
    OtherRef("Time64", <<52200>>), OtherRef("Interval", <<27, 0, 0>>),
    OtherRef("List", <<1, 2>>), OtherRef("Enum", <<1>>),
    OtherRef("Struct", <<1>>), OtherRef("Array", <<1, 2>>),
    OtherRef("Map", <<1>>), OtherRef("Union", <<1>>) }

NativeValues ==
  { NullRef, BooleanRef(TRUE), BooleanRef(FALSE) }
  \cup IntValues \cup FloatValues \cup TextValues \cup BlobValues \cup OtherValues

\* what row.get_ref(i) returns: a value, or an error
CellReads == { Ok(v) : v \in NativeValues } \cup { Err }

\* the cells around the one under study
PadReads == { Ok(IntRef("Int", <<7, 0, 0, 0>>)), Err }

\* the rows handed to the closure: one cell of CellReads at any position
\* among cells of PadReads
RowReads ==
  UNION { { [k \in 1..n |-> IF k = p THEN c ELSE pads[k]] :
              c \in CellReads, pads \in [1..n -> PadReads] } :
          <<n, p>> \in { <<n, p>> \in (1..MaxCells) \X (1..MaxCells) : p <= n } }

(***************************************************************************)
(* State.                                                                  *)
(***************************************************************************)
VARIABLES
  \* the classifier, applied to one text
  input,           \* the text, an element of SqlInputs (NoInput when unused)
  phase,           \* "input" before the call, "done" after it
  cleaned_sql,     \* is_write_operation's local cleaned_sql
  statements,      \* is_write_operation's local statements
  verdict,         \* what is_write_operation returned
  \* one request through handlers.rs
  args,            \* the command line: database, readwrite
  is_readonly,     \* AppState.is_readonly
  req,             \* the request
  pc,              \* where the request is
  cursor,          \* what the engine will produce for the query
  ncols,           \* the statement's column count
  affected,        \* what conn.execute will report for the command
  pool_out,        \* connections checked out of state.pool
  db_calls,        \* the calls made on the pool and the connection, in order
  task_sql,        \* the sql moved into the blocking closure
  limit,           \* execute_sql_with_limit's local limit
  pos,             \* how many rows the iterator has taken from the cursor
  row_result,      \* the item of the current iteration
  result_rows,     \* execute_sql_with_limit's local result_rows
  detected_column_count,
  row_count,
  truncated,
  task_result,     \* what spawn_blocking(..).await gave
  response,        \* the response sent
  \* the closure of query_map on one row, and the loop body on its result
  row_reads,       \* what row.get_ref(i) returns, column by column
  kpc,             \* where the closure is
  row_data,        \* the closure's local row_data
  closure_result,  \* what the closure returned
  row_outcome,     \* what "row_result?" did with it
  \* several blocking tasks on the one pool of AppState
  task_pc,         \* where each task is
  held,            \* how many connections each task holds
  checked_out,     \* how many connections are out of state.pool
  \* one call of execute_sql on a statement with many rows, rows counted
  sql_rows,        \* how many rows the statement yields
  sql_pc,          \* where the call is
  sql_limit,       \* execute_sql_with_limit's local limit
  sql_row_count,   \* its local row_count
  sql_len,         \* result_rows.len()
  sql_truncated,   \* its local truncated
  sql_result       \* "ok" or "err" once it has returned

cvars == <<input, phase, cleaned_sql, statements, verdict>>

hvars == <<args, is_readonly, req, pc, cursor, ncols, affected, pool_out,
           db_calls, task_sql, limit, pos, row_result, result_rows,
           detected_column_count, row_count, truncated, task_result, response>>

kvars == <<row_reads, kpc, row_data, closure_result, row_outcome>>

pvars == <<task_pc, held, checked_out>>

xvars == <<sql_rows, sql_pc, sql_limit, sql_row_count, sql_len, sql_truncated,
           sql_result>>

vars == <<cvars, hvars, kvars, pvars, xvars>>

NoInput == [stmts |-> <<>>, trail |-> FALSE]

NoRequest ==
  [endpoint |-> "query", method |-> "POST", has_sql |-> TRUE, sql |-> <<>>,
   limit |-> None]

\* the classifier's variables when no text is being classified
ClassifierIdle ==
  /\ input = NoInput
  /\ phase = "unused"
  /\ cleaned_sql = <<>>
  /\ statements = <<>>
  /\ verdict = FALSE

\* the locals of the blocking task before it starts
TaskLocalsInit ==
  /\ pool_out = 0
  /\ db_calls = <<>>
  /\ task_sql = <<>>
  /\ limit = 0
  /\ pos = 0
  /\ row_result = "none"
  /\ result_rows = <<>>
  /\ detected_column_count = 0
  /\ row_count = 0
  /\ truncated = FALSE
  /\ task_result = NoResult
  /\ response = NoResponse

\* the request path's variables when there is no request
HandlerIdle ==
  /\ args = [database |-> None, readwrite |-> FALSE]
  /\ is_readonly = FALSE
  /\ req = NoRequest
  /\ pc = "unused"
  /\ cursor = <<>>
  /\ ncols = 1
  /\ affected = 0
  /\ TaskLocalsInit

\* the closure's variables when no row is being converted
ConvertIdle ==
  /\ row_reads = <<>>
  /\ kpc = "unused"
  /\ row_data = <<>>
  /\ closure_result = Err
  /\ row_outcome = "none"

\* the pool's variables when no task runs
PoolIdle ==
  /\ task_pc = <<>>
  /\ held = <<>>
  /\ checked_out = 0

ExecuteSqlIdle ==
  /\ sql_rows = 0
  /\ sql_pc = "idle"
  /\ sql_limit = 0
  /\ sql_row_count = 0
  /\ sql_len = 0
  /\ sql_truncated = FALSE
  /\ sql_result = "none"

(***************************************************************************)
(* The classifier applied to every text of SqlInputs.                      *)
(***************************************************************************)
InitClassify ==
  /\ input \in SqlInputs
  /\ phase = "input"
  /\ cleaned_sql = <<>>
  /\ statements = <<>>
  /\ verdict = FALSE
  /\ HandlerIdle
  /\ ConvertIdle
  /\ PoolIdle
  /\ ExecuteSqlIdle

\* one call of is_write_operation(sql), its locals kept
Classify ==
  /\ phase = "input"
  /\ phase' = "done"
  /\ cleaned_sql' = remove_sql_comments(SqlText(input))
  /\ statements' = split_statements(remove_sql_comments(SqlText(input)))
  /\ verdict' = is_write_operation(SqlText(input))
  /\ UNCHANGED <<input, hvars, kvars, pvars, xvars>>

NextClassify == Classify

SpecClassify == InitClassify /\ [][NextClassify]_vars

(***************************************************************************)
(* One request through handlers.rs and database.rs.                        *)
(***************************************************************************)
Init ==
  /\ ClassifierIdle
  /\ args \in [database : {None, Some(1)}, readwrite : BOOLEAN]
  /\ is_readonly = app_state_is_readonly(args)
  /\ req \in ValidRequests
  /\ pc = "received"
  /\ cursor \in Cursors
  /\ ncols \in 1..MaxCols
  /\ affected \in 0..MaxRows
  \* the engine's answer that the request's endpoint does not look at is
  \* held fixed
  /\ (req.endpoint = "execute" \/ ~req.has_sql => cursor = <<>> /\ ncols = 1)
  /\ (req.endpoint = "query" \/ ~req.has_sql => affected = 0)
  /\ TaskLocalsInit
  /\ ConvertIdle
  /\ PoolIdle
  /\ ExecuteSqlIdle

reqvars == <<args, is_readonly, req, cursor, ncols, affected>>

envvars == <<reqvars, task_sql>>

loopvars == <<pos, row_result, result_rows, detected_column_count, row_count,
              truncated>>

\* execute_query_get / execute_command_get without the sql parameter
\* (handlers.rs:91-96, 215-220)
MissingSql ==
  /\ pc = "received"
  /\ ~req.has_sql
  /\ response' = error_response("BadRequest", MSG_MISSING_SQL,
                              Some(REQUEST_QUERY_ID))
  /\ pc' = "responded"
  /\ UNCHANGED <<cvars, kvars, pvars, xvars, envvars, pool_out, db_calls, limit, loopvars, task_result>>

\* execute_query_internal / execute_command_internal: the read-only check
\* returned Some(error_msg) (handlers.rs:114-118, 236-240)
RejectReadOnly ==
  /\ pc = "received"
  /\ req.has_sql
  /\ validate_readonly_operation(is_readonly, req.sql)
  /\ response' = error_response("Forbidden", MSG_READ_ONLY,
                              Some(REQUEST_QUERY_ID))
  /\ pc' = "responded"
  /\ UNCHANGED <<cvars, kvars, pvars, xvars, envvars, pool_out, db_calls, limit, loopvars, task_result>>

\* the check returned None: spawn_blocking starts execute_sql_with_limit,
\* which computes its limit (database.rs:144), or execute_sql_command
SpawnBlocking ==
  /\ pc = "received"
  /\ req.has_sql
  /\ ~validate_readonly_operation(is_readonly, req.sql)
  /\ task_sql' = req.sql
  /\ limit' = IF req.endpoint = "query" THEN effective_limit(req.limit) ELSE 0
  /\ pc' = "task"
  /\ UNCHANGED <<cvars, kvars, pvars, xvars, reqvars, pool_out, db_calls, loopvars, task_result, response>>

\* state.pool.get()? (database.rs:147, 283)
PoolGet ==
  /\ pc = "task"
  /\ db_calls' = Append(db_calls, "pool.get")
  /\ \/ /\ pool_out' = pool_out + 1
        /\ pc' = "connected"
        /\ UNCHANGED task_result
     \/ /\ task_result' = TaskErr("Database.Pool", R2D2_TIMED_OUT)
        /\ pc' = "joined"
        /\ UNCHANGED pool_out
  /\ UNCHANGED <<cvars, kvars, pvars, xvars, envvars, limit, loopvars, response>>

\* conn.prepare(sql)? (database.rs:149); an error drops conn
Prepare ==
  /\ pc = "connected"
  /\ req.endpoint = "query"
  /\ db_calls' = Append(db_calls, "prepare")
  /\ \/ /\ pc' = "prepared"
        /\ UNCHANGED <<pool_out, task_result>>
     \/ /\ \E e \in EngineErrors : task_result' = TaskErr("Database.DuckDb", e)
        /\ pool_out' = pool_out - 1
        /\ pc' = "joined"
  /\ UNCHANGED <<cvars, kvars, pvars, xvars, envvars, limit, loopvars, response>>

\* stmt.query_map([], ..)? (database.rs:152-160)
QueryMap ==
  /\ pc = "prepared"
  /\ db_calls' = Append(db_calls, "query_map")
  /\ \/ /\ pc' = "loop"
        /\ UNCHANGED <<pool_out, task_result>>
     \/ /\ \E e \in EngineErrors : task_result' = TaskErr("Database.DuckDb", e)
        /\ pool_out' = pool_out - 1
        /\ pc' = "joined"
  /\ UNCHANGED <<cvars, kvars, pvars, xvars, envvars, limit, loopvars, response>>

\* "for row_result in rows": the iterator's next(), which takes the next row
\* from the cursor and runs the closure on it, or ends the loop
LoopNext ==
  /\ pc = "loop"
  /\ IF pos < Len(cursor)
       THEN /\ pos' = pos + 1
            /\ row_result' = cursor[pos + 1]
            /\ db_calls' = Append(db_calls, "next")
            /\ pc' = "body"
       ELSE /\ pc' = "columns"
            /\ db_calls' = Append(db_calls, "next")
            /\ UNCHANGED <<pos, row_result>>
  /\ UNCHANGED <<cvars, kvars, pvars, xvars, envvars, pool_out, limit, result_rows,
                 detected_column_count, row_count, truncated, task_result,
                 response>>

\* the loop body (database.rs:169-180)
LoopBody ==
  /\ pc = "body"
  /\ IF limit_reached(row_count, limit)
       THEN /\ truncated' = TRUE
            /\ pc' = "columns"
            /\ UNCHANGED <<result_rows, detected_column_count, row_count,
                           task_result, pool_out>>
       ELSE IF row_result = "err"
         THEN /\ \E e \in EngineErrors :
                   task_result' = TaskErr("Database.DuckDb", e)
              /\ pool_out' = pool_out - 1
              /\ pc' = "joined"
              /\ UNCHANGED <<result_rows, detected_column_count, row_count,
                             truncated>>
         ELSE /\ detected_column_count' =
                   IF detected_column_count = 0 THEN ncols
                   ELSE detected_column_count
              /\ result_rows' = Append(result_rows, row_cells(pos, ncols))
              /\ row_count' = row_count + 1
              /\ pc' = "loop"
              /\ UNCHANGED <<truncated, task_result, pool_out>>
  /\ UNCHANGED <<cvars, kvars, pvars, xvars, envvars, db_calls, limit, pos, row_result, response>>

\* after the loop: the column names and the response object
\* (database.rs:183-213); returning drops stmt and conn
BuildResult ==
  /\ pc = "columns"
  /\ LET column_count ==
           IF detected_column_count > 0 THEN detected_column_count ELSE ncols
     IN  task_result' =
           TaskOk(query_data(get_column_names(column_count), result_rows,
                             limit, truncated))
  /\ pool_out' = pool_out - 1
  /\ pc' = "joined"
  /\ UNCHANGED <<cvars, kvars, pvars, xvars, envvars, db_calls, limit, loopvars, response>>

\* conn.execute(sql, [])? and the result object (database.rs:286-294)
ExecuteCommand ==
  /\ pc = "connected"
  /\ req.endpoint = "execute"
  /\ db_calls' = Append(db_calls, "execute")
  /\ \/ task_result' = TaskOk(command_data(affected))
     \/ \E e \in EngineErrors : task_result' = TaskErr("Database.DuckDb", e)
  /\ pool_out' = pool_out - 1
  /\ pc' = "joined"
  /\ UNCHANGED <<cvars, kvars, pvars, xvars, envvars, limit, loopvars, response>>

\* the blocking task panics: the JoinHandle yields Err(JoinError); unwinding
\* drops the connection if one is held
TaskPanic ==
  /\ pc \in {"task", "connected", "prepared", "loop", "body", "columns"}
  /\ task_result' = TaskJoinErr(JOIN_PANICKED)
  /\ pool_out' = 0
  /\ pc' = "joined"
  /\ UNCHANGED <<cvars, kvars, pvars, xvars, envvars, db_calls, limit, loopvars, response>>

\* "match result" (handlers.rs:126-169, 247-288)
Respond ==
  /\ pc = "joined"
  /\ response' =
       CASE task_result.kind = "ok" ->
              ok_response(task_result.data, REQUEST_QUERY_ID)
         [] task_result.kind = "err" ->
              error_response(task_result.err, task_result.text,
                             Some(REQUEST_QUERY_ID))
         [] task_result.kind = "join_err" ->
              error_response("InternalServerError",
                             P_TASK_JOIN \o task_result.text,
                             Some(REQUEST_QUERY_ID))
  /\ pc' = "responded"
  /\ UNCHANGED <<cvars, kvars, pvars, xvars, envvars, pool_out, db_calls, limit, loopvars, task_result>>

Next ==
  \/ MissingSql
  \/ RejectReadOnly
  \/ SpawnBlocking
  \/ PoolGet
  \/ Prepare
  \/ QueryMap
  \/ LoopNext
  \/ LoopBody
  \/ BuildResult
  \/ ExecuteCommand
  \/ TaskPanic
  \/ Respond

Spec == Init /\ [][Next]_vars

(***************************************************************************)
(* The closure of query_map on one row (database.rs:152-160) and the loop  *)
(* body's "row_result?" (line 175), for every row of RowReads.             *)
(***************************************************************************)
InitConvert ==
  /\ ClassifierIdle
  /\ HandlerIdle
  /\ row_reads \in RowReads
  /\ kpc = "closure"
  /\ row_data = <<>>
  /\ closure_result = Err
  /\ row_outcome = "none"
  /\ PoolIdle
  /\ ExecuteSqlIdle

\* one iteration of "for i in 0..column_count": the cell is converted and
\* pushed, or "?" returns the error from the closure
ClosureCell ==
  /\ kpc = "closure"
  /\ Len(row_data) < Len(row_reads)
  /\ LET value == convert_value_to_json(row_reads[Len(row_data) + 1])
     IN  IF value.ok
           THEN /\ row_data' = Append(row_data, value.value[1])
                /\ UNCHANGED <<kpc, closure_result>>
           ELSE /\ closure_result' = Err
                /\ kpc' = "returned"
                /\ UNCHANGED row_data
  /\ UNCHANGED <<cvars, hvars, pvars, xvars, row_reads, row_outcome>>

\* Ok((column_count, row_data))
ClosureReturn ==
  /\ kpc = "closure"
  /\ Len(row_data) = Len(row_reads)
  /\ closure_result' = Ok(<<Len(row_reads), row_data>>)
  /\ kpc' = "returned"
  /\ UNCHANGED <<cvars, hvars, pvars, xvars, row_reads, row_data, row_outcome>>

\* "let (row_column_count, row_data) = row_result?;" of an iteration below
\* the limit: the row is pushed, or execute_sql_with_limit returns
\* Err(DatabaseError::DuckDb)
RowResultTry ==
  /\ kpc = "returned"
  /\ row_outcome' = IF closure_result.ok THEN "pushed" ELSE "Database.DuckDb"
  /\ kpc' = "done"
  /\ UNCHANGED <<cvars, hvars, pvars, xvars, row_reads, row_data, closure_result>>

NextConvert ==
  \/ ClosureCell
  \/ ClosureReturn
  \/ RowResultTry

SpecConvert == InitConvert /\ [][NextConvert]_vars

(***************************************************************************)
(* Several blocking tasks (execute_sql_with_limit, execute_sql_command) on *)
(* the one pool of AppState.                                               *)
(***************************************************************************)
\* Pool::builder().max_size(10) (models.rs:110)
POOL_MAX_SIZE == 10

\* most requests in flight at once
MaxTasks == 11

Tasks == 1..MaxTasks

\* a return that keeps the PooledConnection out of the pool
leak_conn(n) == n

\* a return drops conn: Drop of PooledConnection puts it back into the pool
drop_conn(n) == n - 1

InitPool ==
  /\ ClassifierIdle
  /\ HandlerIdle
  /\ ConvertIdle
  /\ task_pc = [t \in Tasks |-> "spawned"]
  /\ held = [t \in Tasks |-> 0]
  /\ checked_out = 0
  /\ ExecuteSqlIdle

\* a return of task t from a point where it holds conn
ReturnDroppingConn(t) ==
  /\ task_pc[t] = "holding"
  /\ task_pc' = [task_pc EXCEPT ![t] = "returned"]
  /\ held' = [held EXCEPT ![t] = drop_conn(held[t])]
  /\ checked_out' = drop_conn(checked_out)
  /\ UNCHANGED <<cvars, hvars, kvars, xvars>>

\* state.pool.get() gives a connection (database.rs:147, 283): r2d2 hands
\* one out only while fewer than max_size are out
TaskPoolGet(t) ==
  /\ task_pc[t] = "spawned"
  /\ checked_out < POOL_MAX_SIZE
  /\ task_pc' = [task_pc EXCEPT ![t] = "holding"]
  /\ held' = [held EXCEPT ![t] = held[t] + 1]
  /\ checked_out' = checked_out + 1
  /\ UNCHANGED <<cvars, hvars, kvars, xvars>>

\* state.pool.get()? returns Err(DatabaseError::Pool): no connection came
\* free in time, or none could be opened
TaskPoolGetErr(t) ==
  /\ task_pc[t] = "spawned"
  /\ task_pc' = [task_pc EXCEPT ![t] = "returned"]
  /\ UNCHANGED <<cvars, hvars, kvars, xvars, held, checked_out>>

\* conn.prepare(sql)? returns the error (database.rs:149)
TaskPrepareErr(t) == ReturnDroppingConn(t)

\* query_map(..)? or row_result? returns the error (database.rs:160, 175)
TaskRowErr(t) == ReturnDroppingConn(t)

\* Ok(response) of execute_sql_with_limit (database.rs:213)
TaskQueryOk(t) == ReturnDroppingConn(t)

\* conn.execute(sql, [])? returns the error (database.rs:286)
TaskExecuteErr(t) == ReturnDroppingConn(t)

\* Ok(json) of execute_sql_command (database.rs:290-294)
TaskCommandOk(t) == ReturnDroppingConn(t)

\* the task panics while it holds conn: unwinding drops conn
TaskPanicHolding(t) == ReturnDroppingConn(t)

NextPool ==
  \/ \E t \in Tasks : TaskPoolGet(t)
  \/ \E t \in Tasks : TaskPoolGetErr(t)
  \/ \E t \in Tasks : TaskPrepareErr(t)
  \/ \E t \in Tasks : TaskRowErr(t)
  \/ \E t \in Tasks : TaskQueryOk(t)
  \/ \E t \in Tasks : TaskExecuteErr(t)
  \/ \E t \in Tasks : TaskCommandOk(t)
  \/ \E t \in Tasks : TaskPanicHolding(t)

SpecPool == InitPool /\ [][NextPool]_vars

(***************************************************************************)
(* One call of execute_sql (database.rs:129-132) on a statement that       *)
(* yields many rows.  The rows are counted, not kept: sql_len is           *)
(* result_rows.len() and sql_row_count the local row_count.                *)
(***************************************************************************)

\* how far above DEFAULT_ROW_LIMIT the row counts go
MaxOver == 2

\* how many rows the statement yields: few, and around DEFAULT_ROW_LIMIT
RowCounts ==
  (0..MaxRows) \cup ((DEFAULT_ROW_LIMIT - 1)..(DEFAULT_ROW_LIMIT + MaxOver))

InitExecuteSql ==
  /\ ClassifierIdle
  /\ HandlerIdle
  /\ ConvertIdle
  /\ PoolIdle
  /\ sql_rows \in RowCounts
  /\ sql_pc = "call"
  /\ sql_limit = 0
  /\ sql_row_count = 0
  /\ sql_len = 0
  /\ sql_truncated = FALSE
  /\ sql_result = "none"

\* execute_sql -> execute_sql_with_limit(state, sql, None): line 144, then
\* pool.get, prepare and query_map (lines 147-160), each of which may fail
ExecuteSqlCall ==
  /\ sql_pc = "call"
  /\ sql_limit' = effective_limit(None)
  /\ \/ sql_pc' = "loop" /\ UNCHANGED sql_result
     \/ sql_pc' = "done" /\ sql_result' = "err"
  /\ UNCHANGED <<cvars, hvars, kvars, pvars, sql_rows, sql_row_count, sql_len,
                 sql_truncated>>

\* one iteration below the limit (lines 168-181): "row_result?" returns the
\* row's error, or the row is pushed and counted
ExecuteSqlRow ==
  /\ sql_pc = "loop"
  /\ sql_row_count < sql_rows
  /\ ~limit_reached(sql_row_count, sql_limit)
  /\ \/ /\ sql_len' = sql_len + 1
        /\ sql_row_count' = sql_row_count + 1
        /\ UNCHANGED <<sql_pc, sql_result>>
     \/ /\ sql_pc' = "done"
        /\ sql_result' = "err"
        /\ UNCHANGED <<sql_len, sql_row_count>>
  /\ UNCHANGED <<cvars, hvars, kvars, pvars, sql_rows, sql_limit, sql_truncated>>

\* an iteration at the limit (lines 169-173): truncated = true; break
ExecuteSqlBreak ==
  /\ sql_pc = "loop"
  /\ sql_row_count < sql_rows
  /\ limit_reached(sql_row_count, sql_limit)
  /\ sql_truncated' = TRUE
  /\ sql_pc' = "built"
  /\ UNCHANGED <<cvars, hvars, kvars, pvars, sql_rows, sql_limit, sql_row_count,
                 sql_len, sql_result>>

\* the iterator is exhausted: the loop ends
ExecuteSqlEnd ==
  /\ sql_pc = "loop"
  /\ sql_row_count = sql_rows
  /\ sql_pc' = "built"
  /\ UNCHANGED <<cvars, hvars, kvars, pvars, sql_rows, sql_limit, sql_row_count,
                 sql_len, sql_truncated, sql_result>>

\* lines 183-213: the response object is built and returned
\* (get_column_names always returns Ok)
ExecuteSqlReturn ==
  /\ sql_pc = "built"
  /\ sql_pc' = "done"
  /\ sql_result' = "ok"
  /\ UNCHANGED <<cvars, hvars, kvars, pvars, sql_rows, sql_limit, sql_row_count,
                 sql_len, sql_truncated>>

NextExecuteSql ==
  \/ ExecuteSqlCall
  \/ ExecuteSqlRow
  \/ ExecuteSqlBreak
  \/ ExecuteSqlEnd
  \/ ExecuteSqlReturn

SpecExecuteSql == InitExecuteSql /\ [][NextExecuteSql]_vars

(***************************************************************************)
(* Properties of the classifier, under SpecClassify.                       *)
(***************************************************************************)
Classes(in) == { in.stmts[i].class : i \in 1..Len(in.stmts) }

\* C1: when a write keyword is the leading keyword of one of the
\* semicolon-separated statements of the text, is_write_operation returns
\* true, whatever comments, white space or letter case surround it.
C1_WriteKeywordIsWriteLike ==
  (phase = "done" /\ "write" \in Classes(input)) => verdict

\* C2: the classifier fails closed: a text that is empty, only comments, or
\* whose statements all begin with something that is neither a read nor a
\* write keyword is classified write-like.
C2_FailClosed ==
  (phase = "done" /\ Classes(input) \subseteq {"empty", "unknown"}) => verdict

\* C4: remove_sql_comments removes every block comment, those holding a
\* newline included, so that the statement after it begins with its keyword.
\* (In the texts of SqlInputs "/*" occurs only as the opening of a lead.)
C4_BlockCommentsRemoved ==
  phase = "done" =>
    /\ ~Contains(cleaned_sql, <<"/", "*">>)
    /\ (Len(input.stmts) = 1 /\ input.stmts[1].class # "empty" =>
          /\ Len(statements) >= 1
          /\ StartsWith(ToUpper(statements[1]), input.stmts[1].kw))

\* C5: any-of law: is_write_operation is true exactly when one of the
\* non-empty fragments (comments stripped, white space collapsed, split on
\* ";") is write-like for is_single_statement_write_operation; a plainly
\* written DROP statement makes the batch write-like at any position.
C5_AnyOfLaw ==
  phase = "done" =>
    /\ verdict <=>
         \E i \in 1..Len(statements) :
           is_single_statement_write_operation(statements[i])
    /\ ((\E i \in 1..Len(input.stmts) :
            input.stmts[i] \in PadStmts /\ input.stmts[i].class = "write")
          => verdict)

\* C5 witness: a batch whose first fragment is read-only and whose second
\* is write-like has been classified write-like.
C5_Witness ==
  /\ phase = "done"
  /\ Len(statements) = 2
  /\ ~is_single_statement_write_operation(statements[1])
  /\ is_single_statement_write_operation(statements[2])
  /\ verdict

\* C6: COPY <target> FROM <source> is write-like and COPY <source> TO
\* <destination> is read-only, whatever the names (stated for texts of one
\* statement without comments).
C6_CopyDirection ==
  (phase = "done" /\ Len(input.stmts) = 1 /\ input.stmts[1].lead = L_NONE) =>
    /\ (input.stmts[1].class = "copy_from" => verdict)
    /\ (input.stmts[1].class = "copy_to" => ~verdict)

\* C7: a statement beginning with WITH in which one of INSERT, UPDATE,
\* DELETE, CREATE, DROP, ALTER occurs as a keyword is write-like (stated for
\* texts of one statement without comments).
C7_WithWriteIsWriteLike ==
  (phase = "done" /\ Len(input.stmts) = 1 /\ input.stmts[1].lead = L_NONE) =>
    (input.stmts[1].class = "with_write" => verdict)

\* C8, as claimed: a batch whose statements all have SELECT as leading
\* keyword is read-only, whatever follows the keyword.
C8_SelectBatchReadOnly ==
  (phase = "done" /\ Classes(input) = {"select"}) => ~verdict

\* C8, amended: when every fragment the classifier itself obtains (comments
\* stripped, white space collapsed, split on every ";", those inside string
\* literals included) begins with SELECT, is_write_operation returns false,
\* whatever follows the keyword inside the fragment.
C8_SelectFragmentsReadOnly ==
  (phase = "done"
   /\ \A i \in 1..Len(statements) : StartsWith(ToUpper(statements[i]), W_SELECT))
    => ~verdict

\* C8 witness: a lower-case batch of two SELECT fragments, one of them
\* naming created_at, has been classified read-only.
C8_Witness ==
  /\ phase = "done"
  /\ Len(statements) = 2
  /\ \A i \in 1..2 : StartsWith(ToUpper(statements[i]), W_SELECT)
  /\ \E i \in 1..2 :
       /\ Contains(ToUpper(statements[i]), W_CREATE)
       /\ statements[i] = ToLower(statements[i])
  /\ ~verdict

(***************************************************************************)
(* Properties of the request path, under Spec.                             *)
(***************************************************************************)
\* the request is one the read-only gate must reject
WriteInReadOnly == is_readonly /\ req.has_sql /\ is_write_operation(req.sql)

\* C3: in read-only mode a request on /query or /execute whose SQL is
\* classified write-like is answered 403 FORBIDDEN, and for that request no
\* pool connection is acquired and no database call is made at any time.
C3_RejectedBeforeDatabase ==
  WriteInReadOnly =>
    /\ db_calls = <<>>
    /\ pool_out = 0
    /\ task_result = NoResult
    /\ pc \in {"received", "responded"}
    /\ (pc = "responded" =>
          response.status = 403 /\ response.code = "FORBIDDEN"
          /\ ~response.success)

\* C3 witness: the comment-prefixed INSERT sent to /execute of a read-only
\* server has been answered 403.
C3_Witness ==
  /\ pc = "responded"
  /\ is_readonly
  /\ req.endpoint = "execute"
  /\ req.sql = SqlText(One(L_BLOCK, W_INSERT, T_T, "write"))
  /\ response.status = 403

AllRowsOk == \A k \in 1..Len(cursor) : cursor[k] = "ok"

\* C9: for a limit L in [1, MAX_ROW_LIMIT] and a cursor of N rows read
\* without error, the result holds the first min(N, L) rows in cursor order,
\* row_count = min(N, L), limit_applied = L, and truncated is present (and
\* true) exactly when N > L.
C9_RowsAreMinOfCursorAndLimit ==
  (/\ task_result.kind = "ok"
   /\ req.endpoint = "query"
   /\ AllRowsOk
   /\ limit \in 1..MAX_ROW_LIMIT) =>
    LET N == Len(cursor)
        d == task_result.data
    IN  /\ limit = effective_limit(req.limit)
        /\ d.rows = [k \in 1..Min(N, limit) |-> row_cells(k, ncols)]
        /\ d.row_count = Min(N, limit)
        /\ d.limit_applied = limit
        /\ ("truncated" \in DOMAIN d) <=> (N > limit)
        /\ ("truncated" \in DOMAIN d) => d.truncated

\* C9 witness: three rows under limit 2 have been answered with two rows and
\* truncated = true.
C9_Witness ==
  /\ pc = "responded"
  /\ response.success
  /\ req.endpoint = "query"
  /\ AllRowsOk
  /\ Len(cursor) = 3
  /\ limit = 2
  /\ Len(response.data.rows) = 2
  /\ "truncated" \in DOMAIN response.data

\* C10: the limit execute_sql_with_limit applies is in [1, MAX_ROW_LIMIT]
\* for every caller-supplied limit, 0 included.
C10_LimitAtLeastOne ==
  (task_result.kind = "ok" /\ req.endpoint = "query") =>
    task_result.data.limit_applied \in 1..MAX_ROW_LIMIT

\* the blocking task of a /query request has returned Ok
QueryOk == req.endpoint = "query" /\ task_result.kind = "ok"

\* C11: a supplied limit above MAX_ROW_LIMIT gives limit_applied =
\* MAX_ROW_LIMIT, an absent limit gives DEFAULT_ROW_LIMIT, a supplied limit
\* in [1, MAX_ROW_LIMIT] is applied unchanged; and no limit value causes an
\* error: a 400 BAD_REQUEST is sent only for a missing sql, a 403 only for
\* a text the read-only check rejects, and the task fails only in a call on
\* the pool or the engine.
C11_LimitClampedAndDefaulted ==
  /\ QueryOk =>
       LET applied == task_result.data.limit_applied
       IN  /\ (~req.limit.some => applied = DEFAULT_ROW_LIMIT)
           /\ (req.limit.some /\ req.limit.value > MAX_ROW_LIMIT
                 => applied = MAX_ROW_LIMIT)
           /\ (req.limit.some /\ req.limit.value \in 1..MAX_ROW_LIMIT
                 => applied = req.limit.value)
  /\ (pc = "responded" /\ response.code = "BAD_REQUEST") => ~req.has_sql
  /\ (pc = "responded" /\ response.code = "FORBIDDEN") =>
       validate_readonly_operation(is_readonly, req.sql)
  /\ (task_result.kind = "err") =>
       /\ db_calls # <<>>
       /\ task_result.err \in {"Database.Pool", "Database.DuckDb"}

\* C11 witness: a request with limit MAX_ROW_LIMIT + 1 has been answered
\* successfully with limit_applied = MAX_ROW_LIMIT.
C11_Witness ==
  /\ pc = "responded"
  /\ response.success
  /\ req.endpoint = "query"
  /\ req.limit = Some(MAX_ROW_LIMIT + 1)
  /\ response.data.limit_applied = MAX_ROW_LIMIT

\* C12: the limit is tested before the next row is taken: at most `limit`
\* rows are ever taken from the cursor and run through the closure, so row
\* limit + 1 is never fetched or converted (stated for limits in
\* [1, MAX_ROW_LIMIT] and cursors whose rows are all read without error).
C12_AtMostLimitRowsFetched ==
  (req.endpoint = "query" /\ AllRowsOk /\ limit \in 1..MAX_ROW_LIMIT) =>
    pos <= limit

\* C13: in every successful query result, row_count is the number of
\* elements of rows and every row has as many cells as columns has entries.
C13_RowCountAndRowWidth ==
  QueryOk =>
    LET d == task_result.data
    IN  /\ d.row_count = Len(d.rows)
        /\ \A k \in 1..Len(d.rows) : Len(d.rows[k]) = Len(d.columns)

\* C13 witness: a result of two columns and at least two rows has been sent.
C13_Witness ==
  /\ pc = "responded"
  /\ response.success
  /\ req.endpoint = "query"
  /\ Len(response.data.columns) = 2
  /\ Len(response.data.rows) >= 2
  /\ response.data.row_count = Len(response.data.rows)

\* C14: every successful query result carries column_types: one entry per
\* column, in the order of columns, each an uppercase SQL type name.
C14_ColumnTypesPresent ==
  QueryOk =>
    LET d == task_result.data
    IN  /\ "column_types" \in DOMAIN d
        /\ Len(d.column_types) = Len(d.columns)
        /\ \A c \in 1..Len(d.column_types) :
             /\ d.column_types[c] # <<>>
             /\ d.column_types[c] = ToUpper(d.column_types[c])

(***************************************************************************)
(* Properties of the conversion, under SpecConvert.                        *)
(***************************************************************************)
SENTINEL == JString(UNSUPPORTED_TYPE)

\* the cells the closure has converted so far: cell k of row_data is the
\* conversion of read k
ConvertedCells == 1..Len(row_data)

\* C15: a read error on one cell of an accepted row never fails the query:
\* the closure returns the row with the sentinel in that cell and every
\* other cell converted, and the loop pushes the row.
C15_CellErrorDegrades ==
  kpc = "done" =>
    /\ row_outcome = "pushed"
    /\ closure_result.ok
    /\ Len(row_data) = Len(row_reads)
    /\ \A k \in 1..Len(row_data) :
         row_data[k] =
           IF row_reads[k].ok THEN convert_value_to_json(row_reads[k]).value[1]
           ELSE SENTINEL

\* the integer types of at most 64 bits
Int64Tags == IntTags \ {"HugeInt"}

\* C16: every integer of at most 64 bits, signed or unsigned, converts to a
\* JSON integer equal in value to it (a UBigInt above 2^63 - 1 does not
\* become negative), and a HugeInt converts to a JSON integer of its own
\* value or to no integer: its value is never changed.
C16_IntegersKeepTheirValue ==
  \A k \in ConvertedCells :
    LET value_ref == row_reads[k].value[1]
        json == row_data[k]
    IN  /\ value_ref.tag \in Int64Tags =>
             /\ json.kind = "integer"
             /\ NumEq(json.i, TRUE, value_ref.i, IsSignedTag(value_ref.tag))
        /\ (value_ref.tag = "HugeInt" /\ json.kind = "integer") =>
             NumEq(json.i, TRUE, value_ref.i, TRUE)

\* the column types the claim counts as supported scalars
ScalarTags ==
  IntTags \cup {"Boolean", "Float", "Double", "Text", "Decimal", "Date32"}

\* C17: no supported scalar type gives the sentinel: a DECIMAL gives a JSON
\* number and a DATE gives a JSON string that is not the sentinel.
C17_NoScalarGivesSentinel ==
  \A k \in ConvertedCells :
    LET value_ref == row_reads[k].value[1]
        json == row_data[k]
    IN  /\ value_ref.tag \in ScalarTags => json # SENTINEL
        /\ value_ref.tag = "Decimal" => json.kind \in {"integer", "float"}
        /\ value_ref.tag = "Date32" => json.kind = "string" /\ json # SENTINEL

\* "<BLOB n bytes>" for n below 100, digit by digit
BlobPlaceholder(n) ==
  <<"<", "B", "L", "O", "B", " ">>
  \o (IF n >= 10 THEN <<Digit(n \div 10)>> ELSE <<>>) \o <<Digit(n % 10)>>
  \o <<" ", "b", "y", "t", "e", "s", ">">>

\* the variants with an arm of their own in convert_value_to_json
ArmTags ==
  IntTags \cup {"Null", "Boolean", "Float", "Double", "Text", "Blob"}

C19_NoRawEngineText ==
  (/\ pc = "responded"
   /\ task_result.kind = "err"
   /\ task_result.err = "Database.DuckDb") =>
    /\ ~Contains(response.message, task_result.text)
    /\ \A d \in 1..Len(response.details) :
         ~Contains(response.details[d], task_result.text)
    /\ \A other \in EngineErrors :
         sanitize_database_error(other) = sanitize_database_error(task_result.text)
           => LET r == error_response("Database.DuckDb", other, response.query_id)
              IN  /\ r.code = response.code
                  /\ r.message = response.message
                  /\ r.details = response.details

\* the request failed for lack of a pool connection / by a blocking task
\* that did not finish
PoolFailure == task_result.kind = "err" /\ task_result.err = "Database.Pool"
TaskFailure == task_result.kind = "join_err"

\* C20, as claimed: a pool.get() error and a spawn_blocking join error both
\* give a service-unavailable response (503), whose status and code differ
\* from those of a DuckDB query error (400 DATABASE_QUERY_ERROR).
C20_ResourceErrorsUnavailable ==
  (pc = "responded" /\ (PoolFailure \/ TaskFailure)) =>
    /\ response.status = 503
    /\ response.status # 400
    /\ response.code # "DATABASE_QUERY_ERROR"

\* C20, amended: a pool.get() error gives 503 DATABASE_POOL_ERROR and a
\* spawn_blocking join error gives 500 INTERNAL_SERVER_ERROR; both differ
\* in status and in code from the response to a DuckDB query error, which
\* is 400 DATABASE_QUERY_ERROR.
C20_ResourceErrorsDistinct ==
  pc = "responded" =>
    /\ PoolFailure =>
         response.status = 503 /\ response.code = "DATABASE_POOL_ERROR"
    /\ TaskFailure =>
         response.status = 500 /\ response.code = "INTERNAL_SERVER_ERROR"
    /\ (task_result.kind = "err" /\ task_result.err = "Database.DuckDb") =>
         response.status = 400 /\ response.code = "DATABASE_QUERY_ERROR"
    /\ (PoolFailure \/ TaskFailure) =>
         \A e \in EngineErrors :
           LET query_error == error_response("Database.DuckDb", e,
                                            response.query_id)
           IN  /\ response.status # query_error.status
               /\ response.code # query_error.code

\* C20 witness: a /query request whose blocking task panicked after
\* query_map has been answered 500 INTERNAL_SERVER_ERROR.
C20_Witness ==
  /\ pc = "responded"
  /\ TaskFailure
  /\ req.endpoint = "query"
  /\ db_calls = <<"pool.get", "prepare", "query_map">>
  /\ response.status = 500
  /\ response.code = "INTERNAL_SERVER_ERROR"

(***************************************************************************)
(* Properties of the pool, under SpecPool.                                 *)
(***************************************************************************)
RECURSIVE SumHeld(_)
SumHeld(n) == IF n = 0 THEN 0 ELSE held[n] + SumHeld(n - 1)

\* C21: under every interleaving of the tasks, at most POOL_MAX_SIZE
\* connections are out of the pool, each task holds at most one, the
\* connections out are those the tasks hold, a task that has returned (with
\* a result, a prepare error, a row error, an execute error or a panic)
\* holds none, and once all have returned none is out.
C21_PoolBoundedAndReturned ==
  /\ checked_out <= POOL_MAX_SIZE
  /\ \A t \in Tasks : held[t] \in 0..1
  /\ checked_out = SumHeld(MaxTasks)
  /\ \A t \in Tasks : task_pc[t] = "returned" => held[t] = 0
  /\ (\A t \in Tasks : task_pc[t] = "returned") => checked_out = 0

\* C21 witness: POOL_MAX_SIZE tasks hold a connection each and one more
\* task has not got one yet.
C21_Witness ==
  /\ checked_out = POOL_MAX_SIZE
  /\ \E t \in Tasks : task_pc[t] = "spawned" /\ held[t] = 0
  /\ \A t \in Tasks : task_pc[t] = "holding" => held[t] = 1

(***************************************************************************)
(* Properties of commands and of the handlers, under Spec.                 *)
(***************************************************************************)

CommandOk == req.endpoint = "execute" /\ task_result.kind = "ok"

\* C22: a command that succeeds with an affected count of k returns the
\* object with rows = [], row_count = 0 and rows_affected = k, and the handler
\* passes that object on unchanged as the data of a 200 response.
C22_CommandResultShape ==
  CommandOk =>
    /\ task_result.data.rows = <<>>
    /\ task_result.data.row_count = 0
    /\ task_result.data.rows_affected = affected
    /\ db_calls = <<"pool.get", "execute">>
    /\ pc = "responded" =>
         /\ response.status = 200
         /\ response.success
         /\ response.data = task_result.data

\* C22 witness: a command that affected two rows has been answered.
C22_Witness ==
  /\ CommandOk
  /\ affected = 2
  /\ pc = "responded"
  /\ response.data.rows_affected = 2
  /\ response.data.row_count = 0

(***************************************************************************)
(* Properties of execute_sql, under SpecExecuteSql.                        *)
(***************************************************************************)

\* C23: execute_sql runs the query without a row limit: when it succeeds on
\* a statement of N rows it has kept all N rows and reports no truncation.
C23_ExecuteSqlReturnsAllRows ==
  sql_result = "ok" => sql_len = sql_rows /\ ~sql_truncated

\* the paths on which the request was rejected or failed
RequestFailed ==
  \/ ~req.has_sql
  \/ validate_readonly_operation(is_readonly, req.sql)
  \/ task_result.kind \in {"err", "join_err"}

\* C24: a request has no response until its handler returns and one from
\* then on; on every rejection and failure path (missing sql, read-only
\* violation, pool error, engine error, task failure) the response is an
\* error object with success = false, a code, a message and the request's
\* query_id; without the sql parameter it is 400 with "Missing 'sql'
\* parameter" in the message and no call has been made on the database.
C24_OneStructuredResponse ==
  /\ (pc = "responded") <=> (response # NoResponse)
  /\ pc = "responded" =>
       /\ response.query_id = Some(REQUEST_QUERY_ID)
       /\ response.success <=> ~RequestFailed
       /\ ~response.success =>
            /\ response.status \in {400, 403, 500, 503}
            /\ response.code # ""
            /\ response.message # <<>>
            /\ response.data = NoData
       /\ ~req.has_sql =>
            /\ req.method = "GET"
            /\ response.status = 400
            /\ response.code = "BAD_REQUEST"
            /\ Contains(response.message, MSG_MISSING_SQL)
            /\ db_calls = <<>>
            /\ pool_out = 0
            /\ task_result.kind = "none"

\* C24 witness: a GET /execute without the sql parameter has been answered
\* 400 with the request's query_id.
C24_Witness ==
  /\ pc = "responded"
  /\ req.endpoint = "execute"
  /\ req.method = "GET"
  /\ ~req.has_sql
  /\ response.status = 400
  /\ response.query_id = Some(REQUEST_QUERY_ID)

(***************************************************************************)
(* Properties of the COPY rule, under SpecClassify.                        *)
(***************************************************************************)

\* some occurrence of FROM has no occurrence of TO starting before it:
\* there is a FROM, and there is no TO or the first FROM precedes the first TO
FromBeforeAnyTo(u) ==
  \E i \in 1..Len(u) :
    /\ StartsWithAt(u, i, W_FROM)
    /\ \A j \in 1..i : ~StartsWithAt(u, j, W_TO)

CopyStatements ==
  { i \in 1..Len(statements) : StartsWith(Trim(ToUpper(statements[i])), W_COPY) }

InRowLoop == pc \in {"loop", "body", "columns"}

\* C26: in every state of the row loop result_rows holds row_count rows and
\* row_count is at most the effective limit, however many rows the cursor
\* has; the rows kept are the first row_count rows of the cursor, and the
\* iterator has taken at most one row more than is kept: the loop stops
\* early, it does not collect the cursor and cut it afterwards.
C26_RowsKeptWithinLimit ==
  InRowLoop =>
    /\ Len(result_rows) = row_count
    /\ row_count <= limit
    /\ limit = effective_limit(req.limit)
    /\ \A k \in 1..Len(result_rows) : result_rows[k] = row_cells(k, ncols)
    /\ row_count <= pos
    /\ pos <= row_count + 1
    /\ pos <= Len(cursor)
    /\ truncated => pc = "columns" /\ row_count = limit /\ pos = limit + 1

\* C26 witness: a cursor of three rows under a limit of one: the loop has
\* stopped with one row kept and the third row never taken.
C26_Witness ==
  /\ pc = "columns"
  /\ Len(cursor) = 3
  /\ limit = 1
  /\ truncated
  /\ Len(result_rows) = 1
  /\ row_count = 1
  /\ pos = 2

(***************************************************************************)
(* Properties of the read-only gate, under Spec.                           *)
(***************************************************************************)

\* C27: the state is read-only exactly when a database file is given and
\* --readwrite is not set; when it is not read-only the check returns None for
\* every text whatever the classifier says of it, no request is answered
\* 403, every request with a text reaches the blocking task, and the text the
\* request carried is the text given to the database.
C27_GateOnlyWhenReadOnly ==
  /\ is_readonly <=> (args.database.some /\ ~args.readwrite)
  /\ ~args.database.some => ~is_readonly
  /\ ~is_readonly =>
       /\ \A sql \in HandlerSqls : ~validate_readonly_operation(is_readonly, sql)
       /\ response.status # 403
       /\ (pc = "responded" /\ req.has_sql) =>
            task_sql = req.sql /\ task_result.kind # "none"
  /\ response.status = 403 =>
       is_readonly /\ is_write_operation(req.sql) /\ db_calls = <<>>
  /\ pc \in {"task", "connected", "prepared", "loop", "body", "columns",
             "joined"} => task_sql = req.sql
  /\ db_calls # <<>> => task_sql = req.sql

\* C27 witness: with a database file opened --readwrite, a text the
\* classifier calls write-like has been executed and answered 200.
C27_Witness ==
  /\ args.database.some
  /\ args.readwrite
  /\ ~is_readonly
  /\ req.has_sql
  /\ is_write_operation(req.sql)
  /\ pc = "responded"
  /\ response.success
  /\ task_sql = req.sql
  /\ db_calls = <<"pool.get", "execute">>

(***************************************************************************)
(* The gate of the server binary against the classifier, under            *)
(* SpecClassify.                                                           *)
(***************************************************************************)

\* C28: in read-only mode the gate of main.rs rejects a text exactly when
\* is_write_operation classifies it write-like.
C28_GatesAgree ==
  phase = "done" => (main_gate_rejects(SqlText(input)) <=> verdict)

(***************************************************************************)
(* Row errors against the limit, under Spec.                               *)
(***************************************************************************)

\* execute_sql_with_limit returned from its row loop or after it
RowLoopReturned ==
  /\ req.endpoint = "query"
  /\ task_result.kind \in {"ok", "err"}
  /\ Len(db_calls) > 3

\* one of the first min(N, limit) rows of the cursor fails
ErrorWithinLimit ==
  \E k \in 1..Min(Len(cursor), limit) : cursor[k] = "err"

\* C29: once the call has been through its row loop its outcome is decided
\* by the first `limit` rows of the cursor: if one of the first min(N, limit)
\* rows fails the call returns an error and no rows; otherwise it succeeds
\* with the first min(N, limit) rows, truncated exactly when N > limit,
\* whatever the rows after them are: a failing row at position limit + 1 is
\* not reported.
C29_OutcomeDecidedWithinLimit ==
  RowLoopReturned =>
    LET N == Len(cursor)
        m == Min(N, limit)
    IN  /\ ErrorWithinLimit =>
             /\ task_result.kind = "err"
             /\ task_result.err = "Database.DuckDb"
             /\ task_result.data = NoData
             /\ pc = "responded" =>
                  ~response.success /\ response.data = NoData
        /\ ~ErrorWithinLimit =>
             /\ task_result.kind = "ok"
             /\ task_result.data.rows = [k \in 1..m |-> row_cells(k, ncols)]
             /\ task_result.data.row_count = m
             /\ ("truncated" \in DOMAIN task_result.data) <=> (N > limit)
             /\ truncated <=> (N > limit)
        /\ (~ErrorWithinLimit /\ N > limit /\ cursor[limit + 1] = "err") =>
             /\ task_result.kind = "ok"
             /\ Len(task_result.data.rows) = limit
             /\ task_result.data.truncated
             /\ pc = "responded" => response.success

\* C29 witness: under a limit of one, a cursor whose first row is read and
\* whose second row fails has been answered 200 with one row, truncated.
C29_Witness ==
  /\ RowLoopReturned
  /\ pc = "responded"
  /\ limit = 1
  /\ Len(cursor) > 1
  /\ cursor[1] = "ok"
  /\ cursor[2] = "err"
  /\ response.success
  /\ response.data.row_count = 1
  /\ response.data.truncated

\* C29 witness of the other half: under a limit of two, a cursor whose
\* second row fails has been answered with an error and no rows.
C29_ErrorWitness ==
  /\ RowLoopReturned
  /\ pc = "responded"
  /\ limit = 2
  /\ cursor = <<"ok", "err", "ok">>
  /\ ~response.success
  /\ response.data = NoData

====
